---------------------------- MODULE Spec2Model ----------------------------
(***************************************************************************)
(* A model of one UDPRIP node (src/router.py): the Link Table, the Routing *)
(* Table with ECMP hop sets, the update handler, the periodic advertiser,  *)
(* the operator commands and the forwarder.                                *)
(*                                                                         *)
(* Time is counted in advertisement periods.  A neighbor's record keeps    *)
(* `silent', the periods elapsed since its last_seen (now - last_seen), so *)
(* LinkTable._aging = AGING_FACTOR * period is AGING_FACTOR here.          *)
(***************************************************************************)
EXTENDS Integers, Sequences, FiniteSets, TLC

VARIABLES links, routes, sent, printed, fwd, lastVec, th, orph, ops, last,
          running, mesh

vars == <<links, routes, sent, printed, fwd, lastVec, th, orph, ops, last,
          running, mesh>>

(***************************************************************************)
(* links, routes : LinkTable._nbrs and RoutingTable._routes                *)
(* sent          : the datagrams the last operation handed to _send, each  *)
(*                 with its target address                                 *)
(* printed       : what the last operation printed to standard output      *)
(* fwd           : <<m>> when the last operation called                    *)
(*                 _forward_or_notify(m), <<>> otherwise                   *)
(* lastVec       : for each sender, the distances of the most recent       *)
(*                 update handled from it (kept only by SpecAdv)           *)
(* th            : under SpecConc, the position and the local variables of *)
(*                 the three threads of Router.__init__                    *)
(* orph          : under SpecConc, the hop sets that left the table while  *)
(*                 a thread still holds a reference to them                *)
(* ops           : under SpecConc, the adds, dels, datagrams and ticks     *)
(*                 begun                                                   *)
(* last          : the operation that produced the state, with its         *)
(*                 arguments (SpecOp, SpecCmd); under SpecConc, the last   *)
(*                 command of the operator                                 *)
(* running       : Router._running                                         *)
(* mesh          : a network of nodes, each with its own tables, and the   *)
(*                 datagrams in flight between them (SpecMesh, SpecRelay)  *)
(***************************************************************************)

(***************************************************************************)
(* Program constants and the bounds of the model.                          *)
(***************************************************************************)
AGING_FACTOR == 4

MaxWeight == 2
MaxDist == 1
MaxOps == 3
MaxHops == 4

my_ip == "A"
Addr == {"A", "B", "C"}
Peers == Addr \ {my_ip}
Weights == 1..MaxWeight
Dists == 0..MaxDist
Vectors == UNION {[S -> Dists] : S \in SUBSET Addr}
PeerVectors == UNION {[S -> Dists] : S \in SUBSET Peers}
\* the vectors a peer src exports: its own route (0, {src}) is always in them
OwnVectors(src) == {v \in PeerVectors : src \in DOMAIN v /\ v[src] = 0}

(***************************************************************************)
(* Dictionaries are functions; d[k] = v and d.pop(k, None).                *)
(***************************************************************************)
Put(f, k, v) == [x \in (DOMAIN f) \cup {k} |-> IF x = k THEN v ELSE f[x]]

Drop(f, k) == [x \in (DOMAIN f) \ {k} |-> f[x]]

EmptyDict == [x \in {} |-> 0]

(***************************************************************************)
(* Messages.                                                               *)
(***************************************************************************)
mk_data(src, dst, payload) ==
    [type |-> "data", source |-> src, destination |-> dst, payload |-> payload]

mk_update(src, dst, distances) ==
    [type |-> "update", source |-> src, destination |-> dst, distances |-> distances]

mk_trace(src, dst, routers) ==
    [type |-> "trace", source |-> src, destination |-> dst, routers |-> routers]

mk_control(src, dst, reason, original) ==
    [type |-> "control", source |-> src, destination |-> dst, reason |-> reason,
     original |-> original]

\* a payload is a string: an opaque text, or the JSON text of a message
text(t) == [text |-> t]

json_dumps(m) == [json |-> m]

\* the datagrams the receiver is given
DataMsgs == {mk_data(s, d, text("p")) : s \in Peers, d \in Addr}

TraceMsgs == {mk_trace(s, d, <<s>>) : s \in Peers, d \in Addr}

ControlMsgs ==
    {mk_control(s, d, "unreachable", mk_data(d, s, text("p"))) : s \in Peers, d \in Addr}

(***************************************************************************)
(* LinkTable.                                                              *)
(***************************************************************************)
\* Neighbor.__init__: last_seen = time.time(), no period has elapsed since
Neighbor(w) == [weight |-> w, silent |-> 0]

links_add(lk, ip, w) == Put(lk, ip, Neighbor(w))

links_remove(lk, ip) == Drop(lk, ip)

\* touch that promotes an unknown sender to a neighbor
links_touch_promote(lk, ip) ==
    IF ip \in DOMAIN lk THEN [lk EXCEPT ![ip].silent = 0]
    ELSE [x \in (DOMAIN lk) \cup {ip} |->
             IF x = ip THEN [weight |-> 1, silent |-> 0] ELSE lk[x]]

links_touch(lk, ip) ==
    IF ip \in DOMAIN lk THEN [lk EXCEPT ![ip].silent = 0] ELSE lk

\* time.sleep(self.period) returns after n >= 1 periods; a silence longer than
\* AGING_FACTOR is kept as AGING_FACTOR + 1
Elapsed == 1..(AGING_FACTOR + 1)

sleep(lk, n) ==
    [ip \in DOMAIN lk |->
        [lk[ip] EXCEPT !.silent = IF @ + n > AGING_FACTOR THEN AGING_FACTOR + 1
                                  ELSE @ + n]]

\* expire with >= in the place of >
dead_links_eager(lk) == {ip \in DOMAIN lk : lk[ip].silent >= AGING_FACTOR}

\* dead = [ip for ip, n in ... if now - n.last_seen > self._aging]
dead_links(lk) == {ip \in DOMAIN lk : lk[ip].silent > AGING_FACTOR}

links_expire(lk) == [ip \in (DOMAIN lk) \ dead_links(lk) |-> lk[ip]]

(***************************************************************************)
(* RoutingTable.  A route is [cost, hops].                                 *)
(***************************************************************************)
Route(c, h) == [cost |-> c, hops |-> h]

InitRoutes == [d \in {my_ip} |-> Route(0, {my_ip})]

\* a first loop that installs a route only where there is none
relax_new_only(rt, nbr, w_nbr, vector) ==
    [dst \in (DOMAIN rt) \cup (DOMAIN vector) |->
        IF dst \in DOMAIN rt THEN rt[dst]
        ELSE Route(w_nbr + vector[dst], {nbr})]

\* first loop of learn_neighbor_vector: relaxation and ECMP join
relax(rt, nbr, w_nbr, vector) ==
    [dst \in (DOMAIN rt) \cup (DOMAIN vector) |->
        IF dst \notin DOMAIN vector THEN rt[dst]
        ELSE LET total == w_nbr + vector[dst]
             IN  IF dst \notin DOMAIN rt THEN Route(total, {nbr})
                 ELSE IF total < rt[dst].cost THEN Route(total, {nbr})
                 ELSE IF total = rt[dst].cost
                      THEN Route(rt[dst].cost, rt[dst].hops \cup {nbr})
                      ELSE rt[dst]]

\* the test of the second loop: nbr is discarded from the route to dst
withdrawn(rt, nbr, w_nbr, vector, dst) ==
    /\ nbr \in rt[dst].hops
    /\ dst \in DOMAIN vector
    /\ w_nbr + vector[dst] > rt[dst].cost

\* a second loop that withdraws nothing
withdraw_none(rt, nbr, w_nbr, vector) == rt

\* second loop of learn_neighbor_vector: implicit withdrawal
withdraw(rt, nbr, w_nbr, vector) ==
    LET gone == {dst \in DOMAIN rt : /\ withdrawn(rt, nbr, w_nbr, vector, dst)
                                     /\ rt[dst].hops \ {nbr} = {}}
    IN  [dst \in (DOMAIN rt) \ gone |->
            IF withdrawn(rt, nbr, w_nbr, vector, dst)
            THEN Route(rt[dst].cost, rt[dst].hops \ {nbr})
            ELSE rt[dst]]

learn_neighbor_vector(rt, nbr, w_nbr, vector) ==
    withdraw(relax(rt, nbr, w_nbr, vector), nbr, w_nbr, vector)

\* purge_hop that leaves an emptied destination in the table
purge_hop_keep(rt, broken_nh) ==
    [dst \in DOMAIN rt |-> Route(rt[dst].cost, rt[dst].hops \ {broken_nh})]

\* purge_hop that removes the routes whose only hop is broken_nh and leaves
\* the other hop sets as they are
purge_hop_sole(rt, broken_nh) ==
    [dst \in {d \in DOMAIN rt : rt[d].hops # {broken_nh}} |-> rt[dst]]

purge_hop(rt, broken_nh) ==
    LET gone == {dst \in DOMAIN rt : rt[dst].hops \ {broken_nh} = {}}
    IN  [dst \in (DOMAIN rt) \ gone |->
            Route(rt[dst].cost, rt[dst].hops \ {broken_nh})]

RECURSIVE purge_all(_, _)
\* for dead in self.links.expire(): self.rt.purge_hop(dead)
purge_all(rt, dead) ==
    IF dead = {} THEN rt
    ELSE LET d == CHOOSE x \in dead : TRUE
         IN  purge_all(purge_hop(rt, d), dead \ {d})

add_direct(rt, neighbor_ip, w) == Put(rt, neighbor_ip, Route(w, {neighbor_ip}))

RECURSIVE export_loop(_, _, _, _)
\* the loop of export over the routes still to visit, accumulating res
export_loop(rt, todo, to_neighbor, res) ==
    IF todo = {} THEN res
    ELSE LET d == CHOOSE x \in todo : TRUE
         IN  export_loop(rt, todo \ {d}, to_neighbor,
                         IF to_neighbor \notin rt[d].hops
                         THEN Put(res, d, rt[d].cost)
                         ELSE res)

\* export without the split-horizon test
export_all(rt, to_neighbor) == [d \in DOMAIN rt |-> rt[d].cost]

export(rt, to_neighbor) == export_loop(rt, DOMAIN rt, to_neighbor, EmptyDict)

\* the values random.choice can return in next_hop (none when there is no route)
next_hop(rt, dst) == IF dst \in DOMAIN rt THEN rt[dst].hops ELSE {}

(***************************************************************************)
(* The threads (Router.__init__): the operator loop, the receiver and the  *)
(* advertiser.  A thread's record holds its position and its locals; a     *)
(* reference to a hop set is [d, cost, k]: the tuple read for destination  *)
(* d, its set being the one in the table (k = 0) or the orphan orph[k].    *)
(***************************************************************************)
Threads == {"cli", "rx", "adv"}

\* the record of an operation: its name, the address it names, the weight
\* given to add, the periods slept and the neighbors found dead by a tick,
\* for a trace and for the datagram that comes back from it whether the tick
\* just before it had expired the address traced, and for a trace or a del
\* whether the command just before it was the add of the same address
NoOp == [op |-> "init", ip |-> "", w |-> 0, n |-> 0, dead |-> {},
         expired |-> FALSE, added |-> FALSE]

Idle == [pc |-> "idle", exc |-> "", ip |-> "", w |-> 0, vec |-> EmptyDict,
         dst |-> "", todo |-> {}, snap |-> EmptyDict, cur |-> <<>>,
         dead |-> {}, msg |-> <<>>]

(***************************************************************************)
(* A network of nodes.  Each node runs the program with its own address    *)
(* and tables; the full mesh of the test scenarios is the network after    *)
(* each node's startup commands `add <peer> <weight>' have been executed.  *)
(***************************************************************************)
MeshWeight == [first |-> 5, second |-> 20]

NodeInit(n) ==
    [links |-> [p \in Addr \ {n} |-> Neighbor(MeshWeight.first)],
     routes |-> [d \in Addr |-> IF d = n THEN Route(0, {n})
                                ELSE Route(MeshWeight.first, {d})]]

InitMesh ==
    [node |-> [n \in Addr |-> NodeInit(n)],
     chan |-> {},
     phase |-> 0,
     ticked |-> {},
     path |-> <<>>]

(***************************************************************************)
(* The node, one action per completed operation.                           *)
(***************************************************************************)
Init ==
    /\ links = EmptyDict
    /\ routes = InitRoutes
    /\ sent = {}
    /\ printed = {}
    /\ fwd = <<>>
    /\ lastVec = EmptyDict
    /\ th = [t \in Threads |-> Idle]
    /\ orph = EmptyDict
    /\ ops = 0
    /\ last = NoOp
    /\ running = TRUE
    /\ mesh = InitMesh

\* _exec_cmd, case "add"
CmdAdd(ip, w) ==
    /\ links' = links_add(links, ip, w)
    /\ routes' = add_direct(routes, ip, w)
    /\ sent' = {}
    /\ printed' = {}
    /\ fwd' = <<>>

\* _exec_cmd, case "del"
CmdDel(ip) ==
    /\ links' = links_remove(links, ip)
    /\ routes' = purge_hop(routes, ip)
    /\ sent' = {}
    /\ printed' = {}
    /\ fwd' = <<>>

\* _handle_update for a datagram from src_ip carrying distances
HandleUpdate(src_ip, distances) ==
    /\ links' = links_touch(links, src_ip)
    /\ routes' = IF src_ip \in DOMAIN links
                 THEN learn_neighbor_vector(routes, src_ip, links[src_ip].weight,
                                            distances)
                 ELSE routes
    /\ sent' = {}
    /\ printed' = {}
    /\ fwd' = <<>>

\* one iteration of _update_loop: sleep, expire, purge, advertise
Tick(n) ==
    /\ links' = links_expire(sleep(links, n))
    /\ routes' = purge_all(routes, dead_links(sleep(links, n)))
    /\ sent' = {[msg |-> mk_update(my_ip, nbr, export(routes', nbr)), to |-> nbr] :
                    nbr \in DOMAIN links'}
    /\ printed' = {}
    /\ fwd' = <<>>

(***************************************************************************)
(* The forwarder and the message handlers.                                 *)
(***************************************************************************)
\* _forward_or_notify that notifies the source without looking for a route to it
forward_or_notify_blind(rt, m) ==
    IF next_hop(rt, m.destination) # {}
    THEN {{[msg |-> m, to |-> nh]} : nh \in next_hop(rt, m.destination)}
    ELSE {{[msg |-> mk_control(my_ip, m.source, "unreachable", m), to |-> m.source]}}

\* _forward_or_notify: the values `sent' can take, one per random.choice
forward_or_notify(rt, m) ==
    IF next_hop(rt, m.destination) # {}
    THEN {{[msg |-> m, to |-> nh]} : nh \in next_hop(rt, m.destination)}
    ELSE LET ctrl == mk_control(my_ip, m.source, "unreachable", m)
         IN  IF next_hop(rt, ctrl.destination) # {}
             THEN {{[msg |-> ctrl, to |-> back]} :
                       back \in next_hop(rt, ctrl.destination)}
             ELSE {{}}

Forward(m) ==
    /\ sent' \in forward_or_notify(routes, m)
    /\ printed' = {}
    /\ fwd' = <<m>>
    /\ UNCHANGED <<links, routes>>

Deliver(out) ==
    /\ sent' = {}
    /\ printed' = {out}
    /\ fwd' = <<>>
    /\ UNCHANGED <<links, routes>>

\* _handle_data
HandleData(m) ==
    IF m.destination = my_ip THEN Deliver(m.payload) ELSE Forward(m)

\* _handle_trace
HandleTrace(m) ==
    LET t == [m EXCEPT !.routers = Append(@, my_ip)]
    IN  IF t.destination = my_ip
        THEN /\ sent' = {[msg |-> mk_data(my_ip, t.source, json_dumps(t)),
                          to |-> t.source]}
             /\ printed' = {}
             /\ fwd' = <<>>
             /\ UNCHANGED <<links, routes>>
        ELSE Forward(t)

\* _handle_control
HandleControl(m) ==
    IF m.destination = my_ip
    THEN Deliver([control |-> m.reason, pacote |-> m.original])
    ELSE Forward(m)

\* _exec_cmd, case "trace"
CmdTrace(dst) == Forward(mk_trace(my_ip, dst, <<my_ip>>))

(***************************************************************************)
(* Spec: the tables under the operator's add and del of peers, the         *)
(* received updates and the advertiser's ticks.                            *)
(***************************************************************************)
Next ==
    \/ \E ip \in Peers, w \in Weights : CmdAdd(ip, w) /\ UNCHANGED <<lastVec, th, orph, ops, last, running, mesh>>
    \/ \E ip \in Peers : CmdDel(ip) /\ UNCHANGED <<lastVec, th, orph, ops, last, running, mesh>>
    \/ \E src \in Peers, v \in Vectors : HandleUpdate(src, v) /\ UNCHANGED <<lastVec, th, orph, ops, last, running, mesh>>
    \/ \E n \in Elapsed : Tick(n) /\ UNCHANGED <<lastVec, th, orph, ops, last, running, mesh>>

Spec == Init /\ [][Next]_vars

(***************************************************************************)
(* SpecSelf: as Spec, with commands and updates that name any address,     *)
(* the node's own included.                                                *)
(***************************************************************************)
NextSelf ==
    \/ \E ip \in Addr, w \in Weights : CmdAdd(ip, w) /\ UNCHANGED <<lastVec, th, orph, ops, last, running, mesh>>
    \/ \E ip \in Addr : CmdDel(ip) /\ UNCHANGED <<lastVec, th, orph, ops, last, running, mesh>>
    \/ \E src \in Addr, v \in Vectors : HandleUpdate(src, v) /\ UNCHANGED <<lastVec, th, orph, ops, last, running, mesh>>

SpecSelf == Init /\ [][NextSelf]_vars

(***************************************************************************)
(* SpecAdv: the tables with the most recent advertisement of every sender  *)
(* remembered.                                                             *)
(***************************************************************************)
NextAdv ==
    \/ \E ip \in Peers, w \in Weights : CmdAdd(ip, w) /\ UNCHANGED <<lastVec, th, orph, ops, last, running, mesh>>
    \/ \E ip \in Peers : CmdDel(ip) /\ UNCHANGED <<lastVec, th, orph, ops, last, running, mesh>>
    \/ \E src \in Peers : \E v \in OwnVectors(src) :
           HandleUpdate(src, v) /\ lastVec' = Put(lastVec, src, v)
           /\ UNCHANGED <<th, orph, ops, last, running, mesh>>

SpecAdv == Init /\ [][NextAdv]_vars

(***************************************************************************)
(* SpecFwd: the forwarder over the tables the operator and the updates     *)
(* build.                                                                  *)
(***************************************************************************)
NextFwd ==
    \/ \E ip \in Peers, w \in Weights : CmdAdd(ip, w) /\ UNCHANGED <<lastVec, th, orph, ops, last, running, mesh>>
    \/ \E ip \in Peers : CmdDel(ip) /\ UNCHANGED <<lastVec, th, orph, ops, last, running, mesh>>
    \/ \E src \in Peers, v \in PeerVectors : HandleUpdate(src, v) /\ UNCHANGED <<lastVec, th, orph, ops, last, running, mesh>>
    \/ \E m \in DataMsgs : HandleData(m) /\ UNCHANGED <<lastVec, th, orph, ops, last, running, mesh>>
    \/ \E m \in TraceMsgs : HandleTrace(m) /\ UNCHANGED <<lastVec, th, orph, ops, last, running, mesh>>
    \/ \E m \in ControlMsgs : HandleControl(m) /\ UNCHANGED <<lastVec, th, orph, ops, last, running, mesh>>
    \/ \E dst \in Addr : CmdTrace(dst) /\ UNCHANGED <<lastVec, th, orph, ops, last, running, mesh>>

SpecFwd == Init /\ [][NextFwd]_vars

(***************************************************************************)
(* SpecOp: the operator's commands, the updates, the ticks and the node's  *)
(* own datagrams coming back through its socket, with the operation that   *)
(* produced each state remembered in `last'.                               *)
(***************************************************************************)
\* _dispatch
Dispatch(m, src_ip) ==
    IF m.type = "update" THEN HandleUpdate(src_ip, m.distances)
    ELSE IF m.type = "data" THEN HandleData(m)
    ELSE IF m.type = "trace" THEN HandleTrace(m)
    ELSE IF m.type = "control" THEN HandleControl(m)
    ELSE UNCHANGED <<links, routes, sent, printed, fwd>>

\* a datagram the node sent to its own address is received by _listen_loop
Loopback ==
    \E s \in sent :
        /\ s.to = my_ip
        /\ Dispatch(s.msg, my_ip)
        /\ last' = [NoOp EXCEPT !.op = "recv", !.ip = last.ip,
                                !.expired = (last.op = "trace" /\ last.expired)]

NextOp ==
    \/ \E ip \in Peers, w \in Weights :
           /\ CmdAdd(ip, w)
           /\ last' = [NoOp EXCEPT !.op = "add", !.ip = ip]
           /\ UNCHANGED <<lastVec, th, orph, ops, running, mesh>>
    \/ \E ip \in Peers :
           /\ CmdDel(ip)
           /\ last' = [NoOp EXCEPT !.op = "del", !.ip = ip]
           /\ UNCHANGED <<lastVec, th, orph, ops, running, mesh>>
    \/ \E src \in Peers, v \in PeerVectors :
           /\ HandleUpdate(src, v)
           /\ last' = [NoOp EXCEPT !.op = "update", !.ip = src]
           /\ UNCHANGED <<lastVec, th, orph, ops, running, mesh>>
    \/ \E n \in Elapsed :
           /\ Tick(n)
           /\ last' = [NoOp EXCEPT !.op = "tick", !.n = n,
                                   !.dead = dead_links(sleep(links, n))]
           /\ UNCHANGED <<lastVec, th, orph, ops, running, mesh>>
    \/ \E dst \in Addr :
           /\ CmdTrace(dst)
           /\ last' = [NoOp EXCEPT !.op = "trace", !.ip = dst,
                                   !.expired = (last.op = "tick" /\ dst \in last.dead)]
           /\ UNCHANGED <<lastVec, th, orph, ops, running, mesh>>
    \/ Loopback /\ UNCHANGED <<lastVec, th, orph, ops, running, mesh>>

SpecOp == Init /\ [][NextOp]_vars

(***************************************************************************)
(* SpecConc: the three threads interleaved.  The table methods take no     *)
(* lock, so a thread can be preempted between any two dictionary or set    *)
(* operations; each action below is one such operation.                    *)
(***************************************************************************)
Ref(d, c, k) == [d |-> d, cost |-> c, k |-> k]

\* the hop set a reference denotes
Deref(r) == IF r.k = 0 THEN routes[r.d].hops ELSE orph[r.k]

\* some thread holds a reference to the set now stored for d
Held(d) ==
    \E t \in Threads :
        \/ th[t].cur # <<>> /\ th[t].cur[1].d = d /\ th[t].cur[1].k = 0
        \/ d \in DOMAIN th[t].snap /\ th[t].snap[d].k = 0

Fresh == CHOOSE k \in 1..(Cardinality(DOMAIN orph) + 1) :
            /\ k \notin DOMAIN orph
            /\ \A j \in 1..(k - 1) : j \in DOMAIN orph

\* the threads' records once the set stored for d has left the table as orph[k]
Orphaned(thr, d, k) ==
    [t \in Threads |->
        [thr[t] EXCEPT
            !.cur = IF @ # <<>> /\ @[1].d = d /\ @[1].k = 0
                    THEN <<Ref(d, @[1].cost, k)>> ELSE @,
            !.snap = [x \in DOMAIN @ |->
                         IF x = d /\ @[x].k = 0 THEN Ref(d, @[x].cost, k) ELSE @[x]]]]

\* threads and orphans after routes[d] is overwritten or popped
Detached(d) ==
    IF d \in DOMAIN routes /\ Held(d)
    THEN [th |-> Orphaned(th, d, Fresh), orph |-> Put(orph, Fresh, routes[d].hops)]
    ELSE [th |-> th, orph |-> orph]

\* the orphans some thread still refers to
Kept(thr, orp) ==
    LET used == {k \in DOMAIN orp :
                    \E t \in Threads :
                        \/ thr[t].cur # <<>> /\ thr[t].cur[1].k = k
                        \/ \E x \in DOMAIN thr[t].snap : thr[t].snap[x].k = k}
    IN  [k \in used |-> orp[k]]

Commit(thr, orp) ==
    /\ th' = thr
    /\ orph' = Kept(thr, orp)

\* hops.add / hops.discard through a reference r, then thread t moves on as rec
SetHops(t, r, S, rec) ==
    IF r.k = 0
    THEN /\ routes' = [routes EXCEPT ![r.d].hops = S]
         /\ Commit([th EXCEPT ![t] = rec], orph)
    ELSE /\ UNCHANGED routes
         /\ Commit([th EXCEPT ![t] = rec], [orph EXCEPT ![r.k] = S])

\* self._routes.pop(d) with d present, then thread t moves on as rec
PopRoute(t, d, rec) ==
    LET h == Detached(d)
    IN  /\ routes' = Drop(routes, d)
        /\ Commit([h.th EXCEPT ![t] = rec], h.orph)

\* self._routes[d] = (c, {hop}), then thread t moves on as rec
StoreRoute(t, d, c, hop, rec) ==
    LET h == Detached(d)
    IN  /\ routes' = Put(routes, d, Route(c, {hop}))
        /\ Commit([h.th EXCEPT ![t] = rec], h.orph)

Goto(t, rec) ==
    /\ Commit([th EXCEPT ![t] = rec], orph)
    /\ UNCHANGED routes

\* an exception leaves the operation: _listen_loop catches it, the other two
\* loops do not
Raised(t, name) ==
    IF t = "rx" THEN [Idle EXCEPT !.exc = name]
    ELSE [Idle EXCEPT !.pc = "dead", !.exc = name]

\* where purge_hop returns to
AfterPurge(t) ==
    IF t = "adv" THEN [Idle EXCEPT !.pc = "adv_dead", !.dead = th[t].dead]
    ELSE Idle

quiet == <<sent, printed, fwd, lastVec, last, running, mesh>>

(* purge_hop(broken_nh), broken_nh in th[t].ip *)

\* for dst in list(self._routes.keys())
PurgeKeys(t) ==
    /\ th[t].pc = "purge_keys"
    /\ Goto(t, [th[t] EXCEPT !.pc = "purge_get", !.todo = DOMAIN routes])
    /\ UNCHANGED <<links, quiet, ops>>

\* cost, hops = self._routes[dst]
PurgeGet(t) ==
    /\ th[t].pc = "purge_get"
    /\ IF th[t].todo = {}
       THEN Goto(t, AfterPurge(t))
       ELSE \E d \in th[t].todo :
               IF d \in DOMAIN routes
               THEN Goto(t, [th[t] EXCEPT !.pc = "purge_test",
                                          !.todo = @ \ {d},
                                          !.cur = <<Ref(d, routes[d].cost, 0)>>])
               ELSE Goto(t, Raised(t, "KeyError"))
    /\ UNCHANGED <<links, quiet, ops>>

\* if broken_nh in hops
PurgeTest(t) ==
    /\ th[t].pc = "purge_test"
    /\ IF th[t].ip \in Deref(th[t].cur[1])
       THEN Goto(t, [th[t] EXCEPT !.pc = "purge_discard"])
       ELSE Goto(t, [th[t] EXCEPT !.pc = "purge_get", !.cur = <<>>])
    /\ UNCHANGED <<links, quiet, ops>>

\* hops.discard(broken_nh)
PurgeDiscard(t) ==
    /\ th[t].pc = "purge_discard"
    /\ SetHops(t, th[t].cur[1], Deref(th[t].cur[1]) \ {th[t].ip},
               [th[t] EXCEPT !.pc = "purge_empty"])
    /\ UNCHANGED <<links, quiet, ops>>

\* if not hops
PurgeEmpty(t) ==
    /\ th[t].pc = "purge_empty"
    /\ IF Deref(th[t].cur[1]) = {}
       THEN Goto(t, [th[t] EXCEPT !.pc = "purge_pop"])
       ELSE Goto(t, [th[t] EXCEPT !.pc = "purge_get", !.cur = <<>>])
    /\ UNCHANGED <<links, quiet, ops>>

\* self._routes.pop(dst)
PurgePop(t) ==
    /\ th[t].pc = "purge_pop"
    /\ IF th[t].cur[1].d \in DOMAIN routes
       THEN PopRoute(t, th[t].cur[1].d,
                     [th[t] EXCEPT !.pc = "purge_get", !.cur = <<>>])
       ELSE Goto(t, Raised(t, "KeyError"))
    /\ UNCHANGED <<links, quiet, ops>>

(* _forward_or_notify(m), m in th[t].msg *)

\* e = self._routes.get(dst) in next_hop(msg["destination"])
NhGet(t) ==
    /\ th[t].pc = "nh_get"
    /\ LET d == th[t].msg[1].destination
       IN  IF d \in DOMAIN routes
           THEN Goto(t, [th[t] EXCEPT !.pc = "nh_choice",
                                      !.cur = <<Ref(d, routes[d].cost, 0)>>])
           ELSE Goto(t, [th[t] EXCEPT !.pc = "back_get"])
    /\ UNCHANGED <<links, quiet, ops>>

\* random.choice(tuple(hops)); self._send(msg, nh)
NhChoice(t) ==
    /\ th[t].pc = "nh_choice"
    /\ IF Deref(th[t].cur[1]) = {}
       THEN Goto(t, Raised(t, "IndexError")) /\ UNCHANGED sent
       ELSE /\ \E nh \in Deref(th[t].cur[1]) :
                   sent' = {[msg |-> th[t].msg[1], to |-> nh]}
            /\ Goto(t, Idle)
    /\ UNCHANGED <<links, printed, fwd, lastVec, ops, last, running, mesh>>

\* e = self._routes.get(dst) in next_hop(ctrl["destination"])
BackGet(t) ==
    /\ th[t].pc = "back_get"
    /\ LET d == th[t].msg[1].source
       IN  IF d \in DOMAIN routes
           THEN Goto(t, [th[t] EXCEPT !.pc = "back_choice",
                                      !.cur = <<Ref(d, routes[d].cost, 0)>>])
           ELSE Goto(t, Idle)
    /\ UNCHANGED <<links, quiet, ops>>

\* random.choice(tuple(hops)); self._send(ctrl, back)
BackChoice(t) ==
    /\ th[t].pc = "back_choice"
    /\ IF Deref(th[t].cur[1]) = {}
       THEN Goto(t, Raised(t, "IndexError")) /\ UNCHANGED sent
       ELSE /\ \E back \in Deref(th[t].cur[1]) :
                   sent' = {[msg |-> mk_control(my_ip, th[t].msg[1].source,
                                                "unreachable", th[t].msg[1]),
                             to |-> back]}
            /\ Goto(t, Idle)
    /\ UNCHANGED <<links, printed, fwd, lastVec, ops, last, running, mesh>>

(* the operator loop *)

\* case "add": self.links.add(ip, w)
CliAdd(ip, w) ==
    /\ th["cli"].pc = "idle"
    /\ ops < MaxOps
    /\ ops' = ops + 1
    /\ links' = links_add(links, ip, w)
    /\ Goto("cli", [Idle EXCEPT !.pc = "add_direct", !.ip = ip, !.w = w])
    /\ last' = [NoOp EXCEPT !.op = "add", !.ip = ip, !.w = w]
    /\ UNCHANGED <<sent, printed, fwd, lastVec, running, mesh>>

\* case "add": self.rt.add_direct(ip, w)
CliAddDirect ==
    /\ th["cli"].pc = "add_direct"
    /\ StoreRoute("cli", th["cli"].ip, th["cli"].w, th["cli"].ip, Idle)
    /\ UNCHANGED <<links, quiet, ops>>

\* case "del": self.links.remove(ip), then purge_hop(ip)
CliDel(ip) ==
    /\ th["cli"].pc = "idle"
    /\ ops < MaxOps
    /\ ops' = ops + 1
    /\ links' = links_remove(links, ip)
    /\ Goto("cli", [Idle EXCEPT !.pc = "purge_keys", !.ip = ip])
    /\ last' = [NoOp EXCEPT !.op = "del", !.ip = ip]
    /\ UNCHANGED <<sent, printed, fwd, lastVec, running, mesh>>

\* case "trace": _forward_or_notify(mk_trace(my_ip, dst, [my_ip]))
CliTrace(dst) ==
    /\ th["cli"].pc = "idle"
    /\ Goto("cli", [Idle EXCEPT !.pc = "nh_get",
                                !.msg = <<mk_trace(my_ip, dst, <<my_ip>>)>>])
    /\ last' = [NoOp EXCEPT !.op = "trace", !.ip = dst, !.w = last.w,
                            !.added = (last.op = "add" /\ last.ip = dst)]
    /\ UNCHANGED <<links, sent, printed, fwd, lastVec, running, mesh, ops>>

(* the receiver *)

\* _handle_update: self.links.touch(src_ip)
RxTouch(src_ip, distances) ==
    /\ th["rx"].pc = "idle"
    /\ ops < MaxOps
    /\ ops' = ops + 1
    /\ links' = links_touch(links, src_ip)
    /\ Goto("rx", [Idle EXCEPT !.pc = "weight", !.ip = src_ip, !.vec = distances])
    /\ UNCHANGED quiet

\* _handle_update: w = self.links.weight(src_ip); if w is not None
RxWeight ==
    /\ th["rx"].pc = "weight"
    /\ IF th["rx"].ip \in DOMAIN links
       THEN Goto("rx", [th["rx"] EXCEPT !.pc = "relax_get",
                                        !.w = links[th["rx"].ip].weight,
                                        !.todo = DOMAIN th["rx"].vec])
       ELSE Goto("rx", Idle)
    /\ UNCHANGED <<links, quiet, ops>>

\* learn_neighbor_vector, first loop: cur = self._routes.get(dst)
RelaxGet ==
    /\ th["rx"].pc = "relax_get"
    /\ IF th["rx"].todo = {}
       THEN Goto("rx", [th["rx"] EXCEPT !.pc = "snapshot"])
       ELSE \E d \in th["rx"].todo :
               Goto("rx", [th["rx"] EXCEPT
                              !.pc = "relax_put",
                              !.todo = @ \ {d},
                              !.dst = d,
                              !.cur = IF d \in DOMAIN routes
                                      THEN <<Ref(d, routes[d].cost, 0)>>
                                      ELSE <<>>])
    /\ UNCHANGED <<links, quiet, ops>>

\* learn_neighbor_vector, first loop: the assignment or the hops.add
RelaxPut ==
    /\ th["rx"].pc = "relax_put"
    /\ LET me == th["rx"]
           total == me.w + me.vec[me.dst]
           on == [me EXCEPT !.pc = "relax_get", !.cur = <<>>, !.dst = ""]
       IN  IF me.cur = <<>> \/ total < me.cur[1].cost
           THEN StoreRoute("rx", me.dst, total, me.ip, on)
           ELSE IF total = me.cur[1].cost
                THEN SetHops("rx", me.cur[1], Deref(me.cur[1]) \cup {me.ip}, on)
                ELSE Goto("rx", on)
    /\ UNCHANGED <<links, quiet, ops>>

\* learn_neighbor_vector, second loop: list(self._routes.items())
Snapshot ==
    /\ th["rx"].pc = "snapshot"
    /\ Goto("rx", [th["rx"] EXCEPT
                      !.pc = "wd_test",
                      !.snap = [d \in DOMAIN routes |-> Ref(d, routes[d].cost, 0)]])
    /\ UNCHANGED <<links, quiet, ops>>

\* if nbr in hops and dst in vector: ... if new_cost > cost
WdTest ==
    /\ th["rx"].pc = "wd_test"
    /\ LET me == th["rx"]
       IN  IF DOMAIN me.snap = {}
           THEN Goto("rx", Idle)
           ELSE \E d \in DOMAIN me.snap :
                   LET r == me.snap[d]
                       rest == [x \in (DOMAIN me.snap) \ {d} |-> me.snap[x]]
                   IN  IF /\ me.ip \in Deref(r)
                          /\ d \in DOMAIN me.vec
                          /\ me.w + me.vec[d] > r.cost
                       THEN Goto("rx", [me EXCEPT !.pc = "wd_discard",
                                                  !.snap = rest, !.cur = <<r>>])
                       ELSE Goto("rx", [me EXCEPT !.snap = rest])
    /\ UNCHANGED <<links, quiet, ops>>

\* hops.discard(nbr)
WdDiscard ==
    /\ th["rx"].pc = "wd_discard"
    /\ SetHops("rx", th["rx"].cur[1], Deref(th["rx"].cur[1]) \ {th["rx"].ip},
               [th["rx"] EXCEPT !.pc = "wd_empty"])
    /\ UNCHANGED <<links, quiet, ops>>

\* if not hops
WdEmpty ==
    /\ th["rx"].pc = "wd_empty"
    /\ IF Deref(th["rx"].cur[1]) = {}
       THEN Goto("rx", [th["rx"] EXCEPT !.pc = "wd_pop"])
       ELSE Goto("rx", [th["rx"] EXCEPT !.pc = "wd_test", !.cur = <<>>])
    /\ UNCHANGED <<links, quiet, ops>>

\* self._routes.pop(dst)
WdPop ==
    /\ th["rx"].pc = "wd_pop"
    /\ IF th["rx"].cur[1].d \in DOMAIN routes
       THEN PopRoute("rx", th["rx"].cur[1].d,
                     [th["rx"] EXCEPT !.pc = "wd_test", !.cur = <<>>])
       ELSE Goto("rx", Raised("rx", "KeyError"))
    /\ UNCHANGED <<links, quiet, ops>>

\* _handle_data for another node: _forward_or_notify(msg)
RxData(m) ==
    /\ th["rx"].pc = "idle"
    /\ ops < MaxOps
    /\ ops' = ops + 1
    /\ m.destination # my_ip
    /\ Goto("rx", [Idle EXCEPT !.pc = "nh_get", !.msg = <<m>>])
    /\ UNCHANGED <<links, quiet>>

(* the advertiser *)

\* time.sleep(self.period), then the list comprehension of expire: dead.
\* The periods pass while no command or datagram is being handled: handling
\* one takes far less than a period.
AdvWake(n) ==
    /\ th["adv"].pc = "idle"
    /\ th["rx"].pc = "idle"
    /\ th["cli"].pc \in {"idle", "dead", "done"}
    /\ ops < MaxOps
    /\ ops' = ops + 1
    /\ links' = sleep(links, n)
    /\ Goto("adv", [Idle EXCEPT !.pc = "expire", !.dead = dead_links(sleep(links, n))])
    /\ UNCHANGED quiet

\* expire: for ip in dead: self.remove(ip)
AdvRemove ==
    /\ th["adv"].pc = "expire"
    /\ links' = [ip \in (DOMAIN links) \ th["adv"].dead |-> links[ip]]
    /\ Goto("adv", [th["adv"] EXCEPT !.pc = "adv_dead"])
    /\ UNCHANGED <<quiet, ops>>

\* for dead in ...: self.rt.purge_hop(dead)
AdvDead ==
    /\ th["adv"].pc = "adv_dead"
    /\ IF th["adv"].dead = {}
       THEN Goto("adv", [Idle EXCEPT !.pc = "advertise"])
       ELSE \E b \in th["adv"].dead :
               Goto("adv", [Idle EXCEPT !.pc = "purge_keys", !.ip = b,
                                        !.dead = th["adv"].dead \ {b}])
    /\ UNCHANGED <<links, quiet, ops>>

\* for nbr in self.links.neighbors(): export and _send; then the test of
\* the while: the advertiser sleeps again (idle), or leaves the loop
AdvAdvertise ==
    /\ th["adv"].pc = "advertise"
    /\ sent' = {[msg |-> mk_update(my_ip, nbr, export(routes, nbr)), to |-> nbr] :
                    nbr \in DOMAIN links}
    /\ Goto("adv", IF running THEN Idle ELSE [Idle EXCEPT !.pc = "done"])
    /\ UNCHANGED <<links, printed, fwd, lastVec, ops, last, running, mesh>>

NextConc ==
    \/ \E ip \in Peers, w \in Weights : CliAdd(ip, w)
    \/ CliAddDirect
    \/ \E ip \in Peers : CliDel(ip)
    \/ \E dst \in Peers : CliTrace(dst)
    \/ \E src \in Peers : \E v \in OwnVectors(src) : RxTouch(src, v)
    \/ RxWeight
    \/ RelaxGet
    \/ RelaxPut
    \/ Snapshot
    \/ WdTest
    \/ WdDiscard
    \/ WdEmpty
    \/ WdPop
    \/ \E m \in DataMsgs : RxData(m)
    \/ \E n \in Elapsed : AdvWake(n)
    \/ AdvRemove
    \/ AdvDead
    \/ AdvAdvertise
    \/ \E t \in Threads : PurgeKeys(t)
    \/ \E t \in Threads : PurgeGet(t)
    \/ \E t \in Threads : PurgeTest(t)
    \/ \E t \in Threads : PurgeDiscard(t)
    \/ \E t \in Threads : PurgeEmpty(t)
    \/ \E t \in Threads : PurgePop(t)
    \/ \E t \in Threads : NhGet(t)
    \/ \E t \in Threads : NhChoice(t)
    \/ \E t \in Threads : BackGet(t)
    \/ \E t \in Threads : BackChoice(t)

SpecConc == Init /\ [][NextConc]_vars

(***************************************************************************)
(* SpecQuit: the operator's add and quit beside the advertiser.  The       *)
(* advertiser tests _running at the head of its loop and then sleeps a     *)
(* period: `idle' is that sleep.  main() leaves its own loop at most 0.2 s *)
(* after the quit and returns, which ends the daemon threads.              *)
(***************************************************************************)
\* case "quit": shutdown(), then the test of the while in _cli_loop
CliQuit ==
    /\ th["cli"].pc = "idle"
    /\ running
    /\ running' = FALSE
    /\ Goto("cli", [Idle EXCEPT !.pc = "done"])
    /\ last' = [NoOp EXCEPT !.op = "quit"]
    /\ UNCHANGED <<links, sent, printed, fwd, lastVec, mesh, ops>>

\* main() returns: the daemon threads end with the process
Exit ==
    /\ ~running
    /\ \E t \in Threads : th[t].pc # "done"
    /\ th' = [t \in Threads |-> [Idle EXCEPT !.pc = "done"]]
    /\ orph' = EmptyDict
    /\ UNCHANGED <<links, routes, quiet, ops>>

NextQuit ==
    \/ \E ip \in Peers, w \in Weights : CliAdd(ip, w)
    \/ CliAddDirect
    \/ CliQuit
    \/ \E n \in Elapsed : AdvWake(n)
    \/ AdvRemove
    \/ AdvDead
    \/ AdvAdvertise
    \/ \E t \in Threads : PurgeKeys(t)
    \/ \E t \in Threads : PurgeGet(t)
    \/ \E t \in Threads : PurgeTest(t)
    \/ \E t \in Threads : PurgeDiscard(t)
    \/ \E t \in Threads : PurgeEmpty(t)
    \/ \E t \in Threads : PurgePop(t)
    \/ Exit

SpecQuit == Init /\ [][NextQuit]_vars

(***************************************************************************)
(* SpecCmd: the operator's add and del of any address, the node's own      *)
(* included, and the updates of the peers, with the operation that         *)
(* produced each state remembered in `last'.                               *)
(***************************************************************************)
NextCmd ==
    \/ \E ip \in Addr, w \in Weights :
           /\ CmdAdd(ip, w)
           /\ last' = [NoOp EXCEPT !.op = "add", !.ip = ip]
           /\ UNCHANGED <<lastVec, th, orph, ops, running, mesh>>
    \/ \E ip \in Addr :
           /\ CmdDel(ip)
           /\ last' = [NoOp EXCEPT !.op = "del", !.ip = ip,
                                   !.added = (last.op = "add" /\ last.ip = ip)]
           /\ UNCHANGED <<lastVec, th, orph, ops, running, mesh>>
    \/ \E src \in Peers, v \in PeerVectors :
           /\ HandleUpdate(src, v)
           /\ last' = [NoOp EXCEPT !.op = "update"]
           /\ UNCHANGED <<lastVec, th, orph, ops, running, mesh>>

SpecCmd == Init /\ [][NextCmd]_vars

(***************************************************************************)
(* SpecMesh: the full mesh of three nodes with all link weights            *)
(* MeshWeight.first.  Every node runs _update_loop with the same period:   *)
(* the iterations go by rounds, a round beginning once every node has run  *)
(* the previous one and the updates it sent were delivered.                *)
(* The operator of OpNode issues del OpPeer, then add OpPeer with weight   *)
(* MeshWeight.second.                                                      *)
(***************************************************************************)
OpNode == "A"
OpPeer == "C"
Relay == "B"

Node(n) == mesh.node[n]

\* the nodes that have run the current round, after node n runs it
Round(n) == IF mesh.ticked = Addr THEN {n} ELSE mesh.ticked \cup {n}

\* one iteration of _update_loop at node n, a period after the previous one
MeshTick(n) ==
    /\ \/ n \notin mesh.ticked
       \/ mesh.ticked = Addr /\ mesh.chan = {}
    /\ LET slept == sleep(Node(n).links, 1)
           lk == links_expire(slept)
           rt == purge_all(Node(n).routes, dead_links(slept))
           out == {[msg |-> mk_update(n, nbr, export(rt, nbr)), to |-> nbr] :
                       nbr \in DOMAIN lk}
       IN  mesh' = [mesh EXCEPT
                       !.node[n] = [links |-> lk, routes |-> rt],
                       !.chan = @ \cup out,
                       !.ticked = Round(n)]
    /\ UNCHANGED <<links, routes, sent, printed, fwd, lastVec, th, orph, ops,
                   last, running>>

\* _handle_update at the node an update in flight is addressed to
MeshUpdate ==
    /\ \E s \in mesh.chan :
           /\ s.msg.type = "update"
           /\ LET n == s.to
                  src_ip == s.msg.source
                  lk == Node(n).links
                  rt == Node(n).routes
              IN  mesh' = [mesh EXCEPT
                      !.node[n] =
                          [links |-> links_touch(lk, src_ip),
                           routes |-> IF src_ip \in DOMAIN lk
                                      THEN learn_neighbor_vector(
                                               rt, src_ip, lk[src_ip].weight,
                                               s.msg.distances)
                                      ELSE rt],
                      !.chan = @ \ {s}]
    /\ UNCHANGED <<links, routes, sent, printed, fwd, lastVec, th, orph, ops,
                   last, running>>

\* _exec_cmd at OpNode, case "del"
MeshDel ==
    /\ mesh.phase = 0
    /\ mesh' = [mesh EXCEPT
                   !.node[OpNode] =
                       [links |-> links_remove(Node(OpNode).links, OpPeer),
                        routes |-> purge_hop(Node(OpNode).routes, OpPeer)],
                   !.phase = 1]
    /\ UNCHANGED <<links, routes, sent, printed, fwd, lastVec, th, orph, ops,
                   last, running>>

\* _exec_cmd at OpNode, case "add"
MeshAdd ==
    /\ mesh.phase = 1
    /\ mesh' = [mesh EXCEPT
                   !.node[OpNode] =
                       [links |-> links_add(Node(OpNode).links, OpPeer,
                                            MeshWeight.second),
                        routes |-> add_direct(Node(OpNode).routes, OpPeer,
                                              MeshWeight.second)],
                   !.phase = 2]
    /\ UNCHANGED <<links, routes, sent, printed, fwd, lastVec, th, orph, ops,
                   last, running>>

NextMesh ==
    \/ \E n \in Addr : MeshTick(n)
    \/ MeshUpdate
    \/ MeshDel
    \/ MeshAdd

\* the loops keep running, and the operator's commands are executed
SpecMesh ==
    /\ Init
    /\ [][NextMesh]_vars
    /\ WF_vars(NextMesh)
    /\ WF_vars(MeshDel)
    /\ WF_vars(MeshAdd)

(***************************************************************************)
(* SpecRelay: SpecMesh's network with the operator of OpNode tracing any   *)
(* address, one trace at a time.  mesh.path lists the nodes that handled   *)
(* the trace: the node that originated it, then every node that received   *)
(* it.                                                                     *)
(***************************************************************************)
\* _handle_trace that does not append the node's address
trace_visit_skip(me, m) == m

\* msg["routers"].append(self.my_ip)
trace_visit(me, m) == [m EXCEPT !.routers = Append(@, me)]

\* _forward_or_notify at node me: the sets of datagrams it can send
node_forward(me, rt, m) ==
    IF next_hop(rt, m.destination) # {}
    THEN {{[msg |-> m, to |-> nh]} : nh \in next_hop(rt, m.destination)}
    ELSE LET ctrl == mk_control(me, m.source, "unreachable", m)
         IN  IF next_hop(rt, ctrl.destination) # {}
             THEN {{[msg |-> ctrl, to |-> back]} :
                       back \in next_hop(rt, ctrl.destination)}
             ELSE {{}}

\* a trace, or what came of it, is in flight
Tracing == \E s \in mesh.chan : s.msg.type # "update"

\* _exec_cmd at OpNode, case "trace"
MeshTrace(dst) ==
    /\ ~Tracing
    /\ \E out \in node_forward(OpNode, Node(OpNode).routes,
                                mk_trace(OpNode, dst, <<OpNode>>)) :
           mesh' = [mesh EXCEPT !.chan = @ \cup out, !.path = <<OpNode>>]
    /\ UNCHANGED <<links, routes, sent, printed, fwd, lastVec, th, orph, ops,
                   last, running>>

\* _handle_trace at the node a trace in flight was sent to
MeshTraceRecv ==
    /\ \E s \in mesh.chan :
           /\ s.msg.type = "trace"
           /\ Len(s.msg.routers) < MaxHops
           /\ LET n == s.to
                  t == trace_visit(n, s.msg)
              IN  \E out \in IF t.destination = n
                              THEN {{[msg |-> mk_data(n, t.source, json_dumps(t)),
                                      to |-> t.source]}}
                              ELSE node_forward(n, Node(n).routes, t) :
                      mesh' = [mesh EXCEPT !.chan = (@ \ {s}) \cup out,
                                           !.path = Append(@, n)]
    /\ UNCHANGED <<links, routes, sent, printed, fwd, lastVec, th, orph, ops,
                   last, running>>

\* _handle_data and _handle_control at the node the datagram was sent to
MeshRecv ==
    /\ \E s \in mesh.chan :
           /\ s.msg.type \in {"data", "control"}
           /\ LET n == s.to
              IN  \E out \in IF s.msg.destination = n THEN {{}}
                              ELSE node_forward(n, Node(n).routes, s.msg) :
                      mesh' = [mesh EXCEPT !.chan = (@ \ {s}) \cup out]
    /\ UNCHANGED <<links, routes, sent, printed, fwd, lastVec, th, orph, ops,
                   last, running>>

NextRelay ==
    \/ \E n \in Addr : MeshTick(n)
    \/ MeshUpdate
    \/ MeshDel
    \/ MeshAdd
    \/ \E dst \in Addr : MeshTrace(dst)
    \/ MeshTraceRecv
    \/ MeshRecv

SpecRelay == Init /\ [][NextRelay]_vars

(***************************************************************************)
(* The properties.                                                         *)
(***************************************************************************)
Min(S) == CHOOSE x \in S : \A y \in S : x <= y

\* no operation is in progress in any thread
Quiescent == \A t \in Threads : th[t].pc \in {"idle", "dead"}

InHops(n) == \E d \in DOMAIN routes : n \in routes[d].hops

\* C1: once the operations begun have completed, every route of the table
\* has a non-empty hop_set.
HopsNonEmpty ==
    Quiescent => \A d \in DOMAIN routes : routes[d].hops # {}

\* C1 witness: a neighbor's own route has been removed from the table, its
\* hop_set having been emptied by a withdrawal or a purge.
EmptiedRouteRemoved ==
    /\ Quiescent
    /\ \E n \in DOMAIN links : n \notin DOMAIN routes

\* C2: once the operations begun have completed, every hop of every route is
\* the node's own address or a neighbor of the Link Table.
HopsAreNeighbors ==
    Quiescent =>
        \A d \in DOMAIN routes :
            \A h \in routes[d].hops : h = my_ip \/ h \in DOMAIN links

\* C7: a next_hop call never holds a route whose hop_set is empty.
NextHopSeesHops ==
    \A t \in Threads :
        th[t].pc \in {"nh_choice", "back_choice"} => Deref(th[t].cur[1]) # {}

\* thread t is inside purge_hop(n)
Purging(t, n) ==
    /\ th[t].ip = n
    /\ th[t].pc \in {"purge_keys", "purge_get", "purge_test", "purge_discard",
                     "purge_empty", "purge_pop"}

\* n has left the Link Table and purge_hop(n) has run to its end
Purged(n) ==
    /\ n \notin DOMAIN links
    /\ ~InHops(n)
    /\ \A t \in Threads : ~Purging(t, n)
    /\ th["adv"].pc = "adv_dead" => n \notin th["adv"].dead

\* C8: once a neighbor has been removed from the Link Table and purged from
\* the Routing Table, no remaining step of an update handler in progress for
\* it puts it into a hop_set.
StaleUpdateInsertsNothing ==
    [][\A n \in Peers :
          (/\ Purged(n)
           /\ th["rx"].ip = n
           /\ th["rx"].pc \in {"weight", "relax_get", "relax_put", "snapshot",
                               "wd_test", "wd_discard", "wd_empty", "wd_pop"}
           /\ th["rx"]' # th["rx"])
          => ~InHops(n)']_vars

\* C3: every route has cost >= 0, and cost 0 exactly when its destination is
\* the node's own address, after any add, del or update.
CostZeroIffSelf ==
    \A d \in DOMAIN routes :
        /\ routes[d].cost >= 0
        /\ routes[d].cost = 0 <=> d = my_ip

\* C4: the cost of every route is the minimum, over the hops of its hop_set,
\* of the hop's current link weight plus the distance the hop's most recent
\* advertisement gives for the destination.
CostIsMinOverHops ==
    \A d \in DOMAIN routes :
        (\A h \in routes[d].hops :
            /\ h \in DOMAIN links
            /\ h \in DOMAIN lastVec
            /\ d \in DOMAIN lastVec[h])
        => routes[d].cost =
               Min({links[h].weight + lastVec[h][d] : h \in routes[d].hops})

\* C5: for every neighbor n, export(n) maps exactly the destinations whose
\* hop_set does not contain n, each to its route's cost.
ExportIsSplitHorizon ==
    \A n \in Addr :
        /\ DOMAIN export(routes, n) = {d \in DOMAIN routes : n \notin routes[d].hops}
        /\ \A d \in DOMAIN export(routes, n) : export(routes, n)[d] = routes[d].cost

\* C5 witness: an update was sent to a neighbor n that hides a route through n
\* and carries a route to another node that avoids n.
ExportWitness ==
    \E s \in sent, d1 \in Peers, d2 \in Peers :
        /\ s.msg.type = "update"
        /\ d1 \in DOMAIN routes
        /\ d2 \in DOMAIN routes
        /\ s.to \in routes[d1].hops
        /\ s.to \notin routes[d2].hops
        /\ d1 \notin DOMAIN s.msg.distances
        /\ d2 \in DOMAIN s.msg.distances

\* C6: learning the same vector from the same neighbor twice in a row gives
\* the table that learning it once gives.
LearnTwiceIsLearnOnce ==
    \A nbr \in DOMAIN links, w \in Weights, v \in Vectors :
        LET once == learn_neighbor_vector(routes, nbr, w, v)
        IN  learn_neighbor_vector(once, nbr, w, v) = once

\* C9: when _forward_or_notify is given a data or trace message whose
\* destination has no route, it sends exactly one control/unreachable about
\* the message toward its source if the source has a route, and nothing
\* otherwise; the message itself is not sent.
UnreachableNotified ==
    \A i \in DOMAIN fwd :
        LET m == fwd[i]
        IN  (m.type \in {"data", "trace"} /\ m.destination \notin DOMAIN routes)
            => IF m.source \in DOMAIN routes
               THEN \E back \in routes[m.source].hops :
                        sent = {[msg |-> mk_control(my_ip, m.source, "unreachable", m),
                                 to |-> back]}
               ELSE sent = {}

\* C9 witness: a data message of another node has been refused with a
\* control message sent through a neighbor.
UnreachableWitness ==
    \E i \in DOMAIN fwd, s \in sent :
        /\ fwd[i].type = "data"
        /\ fwd[i].destination \notin DOMAIN routes
        /\ fwd[i].source # my_ip
        /\ s.msg.type = "control"
        /\ s.to \in Peers

\* C10: a control message whose destination is another node and has no route
\* is dropped: handling it sends nothing.
UnroutableControlDropped ==
    \A i \in DOMAIN fwd :
        (fwd[i].type = "control" /\ fwd[i].destination \notin DOMAIN routes)
        => sent = {}

\* C11: handling an update whose sender is not in the Link Table changes
\* neither the Link Table nor the Routing Table.
NonNeighborUpdateIgnored ==
    [][(last'.op = "update" /\ last'.ip \notin DOMAIN links)
       => (links' = links /\ routes' = routes)]_vars

\* C11 witness: an update from a sender that is not a neighbor has just been
\* handled by a node that has a neighbor and routes to other nodes.
NonNeighborUpdateSeen ==
    /\ last.op = "update"
    /\ last.ip \notin DOMAIN links
    /\ DOMAIN links # {}
    /\ \E d \in DOMAIN routes : d # my_ip

\* C12: no failure inside an iteration terminates the receiver loop or the
\* advertiser loop.
LoopsSurvive ==
    /\ th["rx"].pc # "dead"
    /\ th["adv"].pc # "dead"

HasRoute(n, d, r) ==
    /\ d \in DOMAIN Node(n).routes
    /\ Node(n).routes[d] = r

\* C14: in the full mesh, until the operator's del the route of OpNode to
\* OpPeer is the direct one; after del OpPeer and add OpPeer with the higher
\* weight, the network reaches and stays in a state where that route goes
\* through the third node at twice the mesh weight.
MeshReroutes ==
    /\ [](mesh.phase = 0 => HasRoute(OpNode, OpPeer, Route(MeshWeight.first, {OpPeer})))
    /\ <>[]HasRoute(OpNode, OpPeer, Route(2 * MeshWeight.first, {Relay}))

\* C14 witness: the del and the add were executed and the route goes through
\* the third node.
MeshRerouted ==
    /\ mesh.phase = 2
    /\ HasRoute(OpNode, OpPeer, Route(2 * MeshWeight.first, {Relay}))
    /\ OpPeer \in DOMAIN Node(OpNode).links

\* C15: when the operator's trace to ip comes right after add ip w, the
\* forwarder finds the route (w, {ip}) for it, whatever the receiver and the
\* advertiser did between the two commands.
TraceSeesDirectRoute ==
    (last.op = "trace" /\ last.added) =>
        /\ th["cli"].pc \notin {"back_get", "back_choice"}
        /\ th["cli"].pc = "nh_choice" =>
               /\ th["cli"].cur[1].cost = last.w
               /\ Deref(th["cli"].cur[1]) = {last.ip}

\* C16: a del ip that comes right after add ip w leaves ip out of the Link
\* Table and out of every hop_set, the routes whose only hop was ip being
\* removed, and leaves every route whose hop_set did not contain ip as it was.
AddThenDelRemoves ==
    [][(last'.op = "del" /\ last'.added) =>
          /\ last'.ip \notin DOMAIN links'
          /\ \A d \in DOMAIN routes' : last'.ip \notin routes'[d].hops
          /\ \A d \in DOMAIN routes :
                 routes[d].hops = {last'.ip} => d \notin DOMAIN routes'
          /\ \A d \in DOMAIN routes :
                 last'.ip \notin routes[d].hops =>
                     d \in DOMAIN routes' /\ routes'[d] = routes[d]
      ]_vars

\* C16 witness: an add of a peer followed by its del has been executed on a
\* table that keeps a route to another peer.
AddThenDelDone ==
    /\ last.op = "del"
    /\ last.added
    /\ last.ip \in Peers
    /\ \E d \in DOMAIN routes : d \in Peers

\* C17: the routers list of a trace in flight, and of the trace carried by
\* the data reply its destination addresses to its source, is the sequence
\* of the nodes that handled the trace: it starts with the source, every
\* node that received the trace appended its address once, and in the reply
\* it ends with the destination.
TraceListsHandlers ==
    \A s \in mesh.chan :
        /\ s.msg.type = "trace" =>
               /\ s.msg.routers = mesh.path
               /\ Head(s.msg.routers) = s.msg.source
        /\ s.msg.type = "data" =>
               LET t == s.msg.payload.json
               IN  /\ t.routers = mesh.path
                   /\ Head(t.routers) = t.source
                   /\ t.routers[Len(t.routers)] = t.destination
                   /\ s.msg.source = t.destination
                   /\ s.msg.destination = t.source
                   /\ (Len(t.routers) = 2 /\ t.source # t.destination) =>
                          t.routers = <<t.source, t.destination>>

\* C17 witness: the reply to a trace that went from OpNode through the third
\* node to OpPeer is in flight.
RelayedTraceReplied ==
    \E s \in mesh.chan :
        /\ s.msg.type = "data"
        /\ s.msg.payload.json.routers = <<OpNode, Relay, OpPeer>>
        /\ s.to = OpNode

\* what the route to dst becomes, by the four cases on total = w + v[dst];
\* << >> stands for no route
LearnCase(rt, nbr, w, v, dst) ==
    IF dst \notin DOMAIN v
    THEN IF dst \in DOMAIN rt THEN <<rt[dst]>> ELSE << >>
    ELSE LET total == w + v[dst]
         IN  IF dst \notin DOMAIN rt THEN <<Route(total, {nbr})>>
             ELSE IF total < rt[dst].cost THEN <<Route(total, {nbr})>>
             ELSE IF total = rt[dst].cost
                  THEN <<Route(rt[dst].cost, rt[dst].hops \cup {nbr})>>
                  ELSE IF rt[dst].hops \ {nbr} = {} THEN << >>
                       ELSE <<Route(rt[dst].cost, rt[dst].hops \ {nbr})>>

\* C18: learn_neighbor_vector(nbr, w, v) changes the table destination by
\* destination: with total = w + v[dst], no route -> (total, {nbr}); total
\* below the cost -> (total, {nbr}); equal -> nbr joins the hop_set; above ->
\* nbr leaves the hop_set and the destination goes when the set is emptied;
\* a destination that v does not name keeps its route.
LearnByCases ==
    \A nbr \in Peers, w \in Weights, v \in Vectors :
        LET out == learn_neighbor_vector(routes, nbr, w, v)
        IN  \A dst \in Addr :
                LearnCase(routes, nbr, w, v, dst) =
                    IF dst \in DOMAIN out THEN <<out[dst]>> ELSE << >>

\* C18 witness: the table holds a route shared by two hops, which only the
\* case of equal totals produces, and a neighbor's own route has been
\* withdrawn.
LearnCasesSeen ==
    /\ \E d \in DOMAIN routes : Cardinality(routes[d].hops) = 2
    /\ \E n \in DOMAIN links : n \notin DOMAIN routes

\* C19: every data, trace or control message sent for a destination other
\* than the node itself is sent to a member of the hop_set of the route to
\* that destination.
SentThroughHopSet ==
    \A s \in sent :
        (s.msg.type \in {"data", "trace", "control"} /\ s.msg.destination # my_ip)
        => /\ s.msg.destination \in DOMAIN routes
           /\ s.to \in routes[s.msg.destination].hops

\* C20: once quit has been executed, an advertiser that was sleeping begins
\* no expiry, purge or advertisement when it wakes: it stays asleep or ends.
AdvertiserCeases ==
    [][(~running /\ th["adv"].pc = "idle") => th["adv"]'.pc \in {"idle", "done"}]_vars

=============================================================================
